---- MODULE Spec2Model ----
(***************************************************************************)
(* heksa: the record rendering engine (pkg/reader, Reader.New/Read/Header) *)
(* and the dump loop of main.                                              *)
(*                                                                         *)
(* Text is a sequence of tokens.  A glyph token is one visible character   *)
(* (a non-ASCII glyph is written by its code point, "U+2021"); a marker    *)
(* token "<fg:...>" is one foreground colour escape sequence.              *)
(***************************************************************************)
EXTENDS Integers, Sequences, FiniteSets, TLC

VARIABLES
    src,              \* the bytes of the source (file or redirected stdin)
    pos,              \* current position of the source
    startOffset,      \* position of the source when the Reader is built
    fileSize,         \* Reader.fileSize
    charFormatters,   \* Reader.charFormatters
    offsetFormatter,  \* Reader.offsetFormatter
    showHeader,       \* Reader.showHeader
    ReadBytes,        \* Reader.ReadBytes
    ret,              \* what the last Reader.Read returned: [line, err]
    hdr,              \* what the last Reader.Header returned
    last,             \* the last Reader.Read call, as the source saw it
    rec,              \* the last Reader.Read call that returned a line
    prev,             \* the one before rec that returned a line
    sumRb,            \* sum of rb over the Reader.Read calls that returned a line
    limit,            \* main: limit
    pc,               \* main: position in main
    stdout            \* main: lines printed, in order

vars == <<src, pos, startOffset, fileSize, charFormatters, offsetFormatter,
          showHeader, ReadBytes, ret, hdr, last, rec, prev, sumRb, limit, pc, stdout>>

config == <<src, startOffset, fileSize, charFormatters, offsetFormatter, showHeader, limit>>

-----------------------------------------------------------------------------
(* Bounds of the model *)

MaxSize == 18
MaxRun == 3
MaxFormatters == 2
MaxSeek == 2
MaxLimit == 17
ShortRead == 5

(* Program constants *)

RecLen == 16
HalfRow == 8
PercentWidth == 8

ByteVals == {0, 5, 9, 65, 200}

Min(a, b) == IF a < b THEN a ELSE b

-----------------------------------------------------------------------------
(* Formatter names *)

ViewHex == "hex"
ViewDec == "dec"
ViewOct == "oct"
ViewBit == "bit"
ViewASCII == "asc"
ViewHexWithASCII == "hexwasc"
ViewDecWithASCII == "decwasc"

Views == <<ViewHex, ViewASCII, ViewBit, ViewDec, ViewOct, ViewHexWithASCII, ViewDecWithASCII>>

ByteFormatter == {Views[k] : k \in 1..Len(Views)}

OffsetHex == "hex"
OffsetDec == "dec"
OffsetOct == "oct"
OffsetPercent == "per"

OffsetFormatter == {OffsetHex, OffsetDec, OffsetOct, OffsetPercent}

-----------------------------------------------------------------------------
(* Colours and glyphs *)

Splitter == "U+250A"
Placeholder == "U+2021"
Newline == "LF"

\* calcpalette[idx]: SetForeground followed by the palette colour of byte idx
palette(v) == "<fg:palette[" \o ToString(v) \o "]>"
\* SplitterColor and OffsetColor are the same colour, Grey93
splitterBreak == "<fg:Grey93>"
offsetBreak == "<fg:Grey93>"
specialBreak == "<fg:Grey35>"
hilightBreak == "<fg:Grey100>"

Markers == {palette(v) : v \in 0..255} \cup {splitterBreak, offsetBreak, specialBreak, hilightBreak}

-----------------------------------------------------------------------------
(* fmt.Sprintf *)

DigitGlyph == <<"0", "1", "2", "3", "4", "5", "6", "7", "8", "9", "a", "b", "c", "d", "e", "f">>

RECURSIVE NatDigits(_, _)
\* the digits of n >= 0 in the base, without padding ("0" for 0)
NatDigits(n, base) ==
    IF n < base THEN <<DigitGlyph[n + 1]>>
    ELSE Append(NatDigits(n \div base, base), DigitGlyph[(n % base) + 1])

Repeat(t, n) == [k \in 1..n |-> t]

\* %0<width>x, %0<width>d, %0<width>o, %0<width>b of n >= 0: zero padded to at
\* least width characters, never cut
Sprintf0(width, base, n) ==
    LET d == NatDigits(n, base)
    IN  IF Len(d) >= width THEN d ELSE Repeat("0", width - Len(d)) \o d

\* %07.3f%% of a float64: thousandths is the value rounded to three decimals
SprintfPercentFinite(thousandths) ==
    Sprintf0(3, 10, thousandths \div 1000) \o <<".">> \o Sprintf0(3, 10, thousandths % 1000) \o <<"%">>

\* %07.3f%% of NaN and of +Inf: fmt never zero-pads them
SprintfPercentNaN == <<" ", " ", " ", " ", "N", "a", "N", "%">>
SprintfPercentInf == <<" ", " ", " ", "+", "I", "n", "f", "%">>

Printable ==
    <<" ", "!", "U+0022", "#", "$", "%", "&", "'", "(", ")", "*", "+", ",", "-", ".", "/",
      "0", "1", "2", "3", "4", "5", "6", "7", "8", "9", ":", ";", "<", "=", ">", "?",
      "@", "A", "B", "C", "D", "E", "F", "G", "H", "I", "J", "K", "L", "M", "N", "O",
      "P", "Q", "R", "S", "T", "U", "V", "W", "X", "Y", "Z", "[", "U+005C", "]", "^", "_",
      "U+0060", "a", "b", "c", "d", "e", "f", "g", "h", "i", "j", "k", "l", "m", "n", "o",
      "p", "q", "r", "s", "t", "u", "v", "w", "x", "y", "z", "{", "|", "}", "~">>

\* the table asciiByteToChar: one glyph for every byte value
asciiByteToChar(v) == IF v >= 32 /\ v <= 126 THEN Printable[v - 31] ELSE "U+00B7"

-----------------------------------------------------------------------------
(* New *)

\* len(fmt.Sprintf(`%x`, filesize)) for hex, dec and oct alike; 8 for percent
offsetFormatterWidth(f) ==
    IF f = OffsetPercent THEN PercentWidth ELSE Len(NatDigits(fileSize, 16))

OffsetBase(f) == CASE f = OffsetHex -> 16 [] f = OffsetDec -> 10 [] f = OffsetOct -> 8

(* formatOffset *)
formatOffset(formatter, offset) ==
    IF formatter = OffsetPercent
    THEN \* (float64(offset) * 100.0) / float64(r.fileSize)
         IF fileSize = 0
         THEN IF offset = 0 THEN SprintfPercentNaN ELSE SprintfPercentInf
         ELSE SprintfPercentFinite((2 * offset * 100000 + fileSize) \div (2 * fileSize))
    ELSE Sprintf0(offsetFormatterWidth(formatter), OffsetBase(formatter), offset)

getoffsetLeft(offset) ==
    IF Len(offsetFormatter) > 0
    THEN <<offsetBreak>> \o formatOffset(offsetFormatter[1], offset) \o <<splitterBreak, Splitter>>
    ELSE <<>>

\* the right column given the bytes read so far instead of the position
getoffsetRightOfReadBytes(offset) ==
    IF Len(offsetFormatter) > 1
    THEN <<splitterBreak, Splitter, offsetBreak>> \o formatOffset(offsetFormatter[2], ReadBytes)
    ELSE <<>>

getoffsetRight(offset) ==
    IF Len(offsetFormatter) > 1
    THEN <<splitterBreak, Splitter, offsetBreak>> \o formatOffset(offsetFormatter[2], offset)
    ELSE <<>>

-----------------------------------------------------------------------------
(* Read: the rendering of one record.  tmp is the 16-byte buffer (zeroed, *)
(* then filled with rb bytes); columns i are 0..15, tmp[i + 1] is byte i.  *)

WithASCII(digits, v) ==
    <<palette(v)>> \o digits \o
    <<" ", specialBreak, "[", hilightBreak, asciiByteToChar(v), specialBreak, "]">>

\* the switch on byteFormatterType for a present byte
PresentText(byteFormatterType, v) ==
    CASE byteFormatterType = ViewHex -> Sprintf0(2, 16, v)
      [] byteFormatterType = ViewDec -> Sprintf0(3, 10, v)
      [] byteFormatterType = ViewOct -> Sprintf0(3, 8, v)
      [] byteFormatterType = ViewBit -> Sprintf0(8, 2, v)
      [] byteFormatterType = ViewASCII -> <<asciiByteToChar(v)>>
      [] byteFormatterType = ViewHexWithASCII -> WithASCII(Sprintf0(2, 16, v), v)
      [] byteFormatterType = ViewDecWithASCII -> WithASCII(Sprintf0(3, 10, v), v)

\* the switch on byteFormatterType for padding: it has no case for ViewBit
AbsentText(byteFormatterType) ==
    CASE byteFormatterType = ViewHex -> Repeat(Placeholder, 2)
      [] byteFormatterType \in {ViewDec, ViewOct} -> Repeat(Placeholder, 3)
      [] byteFormatterType = ViewASCII -> Repeat(Placeholder, 1)
      [] byteFormatterType = ViewHexWithASCII -> Repeat(Placeholder, 6)
      [] byteFormatterType = ViewDecWithASCII -> Repeat(Placeholder, 7)
      [] OTHER -> <<>>

\* a marker for the first byte only, a change of value overlooked
FirstOnly(tmp, i) == i = 0

\* i == 0 || (i > 0 && tmp[i] != tmp[i-1])
FirstOrChanged(tmp, i) == i = 0 \/ (i > 0 /\ tmp[i + 1] # tmp[i])

\* the space after a column
ColumnGap(byteFormatterType, i) ==
    IF i < RecLen - 1 /\ byteFormatterType # ViewASCII THEN <<" ">> ELSE <<>>

\* one pass of the loop over i
Column(byteFormatterType, tmp, rb, i) ==
    (IF i = HalfRow THEN <<" ">> ELSE <<>>) \o
    (IF rb > i
     THEN (IF FirstOrChanged(tmp, i) THEN <<palette(tmp[i + 1])>> ELSE <<>>) \o
          PresentText(byteFormatterType, tmp[i + 1])
     ELSE (IF FirstOrChanged(tmp, i) THEN <<palette(0)>> ELSE <<>>) \o
          AbsentText(byteFormatterType)) \o
    ColumnGap(byteFormatterType, i)

RECURSIVE Columns(_, _, _, _)
\* columns i..15 of one formatter
Columns(byteFormatterType, tmp, rb, i) ==
    IF i >= RecLen THEN <<>>
    ELSE Column(byteFormatterType, tmp, rb, i) \o Columns(byteFormatterType, tmp, rb, i + 1)

\* a splitter after every formatter, the last one too
BlockSplitterAlways(didx) == <<splitterBreak, Splitter>>

\* the splitter after formatter didx (0-based) unless it is the last one
BlockSplitter(didx) ==
    IF didx < Len(charFormatters) - 1 THEN <<splitterBreak, Splitter>> ELSE <<>>

RECURSIVE Blocks(_, _, _)
\* the loop over r.charFormatters from didx (0-based) on
Blocks(tmp, rb, didx) ==
    IF didx >= Len(charFormatters) THEN <<>>
    ELSE Columns(charFormatters[didx + 1], tmp, rb, 0) \o BlockSplitter(didx) \o
         Blocks(tmp, rb, didx + 1)

\* the line Read assembles for the record read at offset
RenderLine(offset, tmp, rb) ==
    getoffsetLeft(offset) \o Blocks(tmp, rb, 0) \o getoffsetRight(offset)

\* make([]byte, 16) after r.r.Read(tmp) returned rb bytes from position offset
Buffer(offset, rb) == [k \in 1..RecLen |-> IF k <= rb THEN src[offset + k] ELSE 0]

-----------------------------------------------------------------------------
(* Header *)

offsetHeader(otype) == Repeat("_", offsetFormatterWidth(otype))

RECURSIVE headerFrom(_, _)
\* the loop of header(l) from label i on
headerFrom(l, i) ==
    IF i >= RecLen THEN <<>>
    ELSE (IF i = HalfRow THEN <<" ">> ELSE <<>>) \o Sprintf0(l, 16, i) \o
         (IF l > 1 /\ i < RecLen - 1 THEN <<" ">> ELSE <<>>) \o headerFrom(l, i + 1)

header(l) == headerFrom(l, 0)

\* the switch on dplay: it has no case for the two with-ASCII formatters
HeaderBlock(dplay) ==
    CASE dplay = ViewHex -> header(2)
      [] dplay = ViewASCII -> header(1)
      [] dplay \in {ViewDec, ViewOct} -> header(3)
      [] dplay = ViewBit -> header(8)
      [] OTHER -> <<>>

RECURSIVE HeaderBlocks(_)
HeaderBlocks(didx) ==
    IF didx >= Len(charFormatters) THEN <<>>
    ELSE <<offsetBreak>> \o HeaderBlock(charFormatters[didx + 1]) \o BlockSplitter(didx) \o
         HeaderBlocks(didx + 1)

Header ==
    IF ~showHeader THEN <<>>
    ELSE (IF Len(offsetFormatter) > 0
          THEN <<offsetBreak>> \o offsetHeader(offsetFormatter[1]) \o <<splitterBreak, Splitter>>
          ELSE <<>>) \o
         HeaderBlocks(0) \o
         (IF Len(offsetFormatter) > 1
          THEN <<splitterBreak, Splitter, offsetBreak>> \o offsetHeader(offsetFormatter[2])
          ELSE <<>>) \o
         <<Newline>>

-----------------------------------------------------------------------------
(* The source: iface.ReadSeekerCloser over src *)

ErrNil == "nil"
EOF == "EOF"
SeekErrors == {"ESPIPE"}
ReadErrors == {"EIO"}

\* what Seek(0, io.SeekCurrent) may answer: the position, or an error
SeekOutcomes == {ErrNil} \cup SeekErrors

\* the byte counts a successful Read(tmp) of 16 bytes may return with
\* remaining > 0 bytes left: all it can, or a short read
ReadSizes(remaining) ==
    {Min(RecLen, remaining)} \cup {n \in {ShortRead} : n < Min(RecLen, remaining)}

\* what Read(tmp) may answer at position p: (n, nil), (0, io.EOF), (0, err)
ReadOutcomes(p) ==
    (IF Len(src) - p > 0
     THEN {[n |-> k, err |-> ErrNil] : k \in ReadSizes(Len(src) - p)}
     ELSE {[n |-> 0, err |-> EOF]}) \cup
    {[n |-> 0, err |-> e] : e \in ReadErrors}

NoCall == [offset |-> -1, rb |-> 0, srcErr |-> ErrNil, seeks |-> 0, reads |-> 0, before |-> 0]

-----------------------------------------------------------------------------
(* Reader.Read, with the source answering seekErr to the position query   *)
(* and rd to the read                                                      *)

\* offset, err := r.r.Seek(0, io.SeekCurrent); if err != nil { return ``, err }
ReadSeekFailed(seekErr) ==
    /\ ret' = [line |-> <<>>, err |-> seekErr]
    /\ last' = [offset |-> -1, rb |-> 0, srcErr |-> seekErr, seeks |-> 1, reads |-> 0,
                before |-> ReadBytes]
    /\ UNCHANGED <<pos, ReadBytes, rec, prev, sumRb>>

\* a failed read that returns what the buffer holds by then, the left offset
ReadFailedWithBuffer(rd) ==
    /\ ret' = [line |-> getoffsetLeft(pos), err |-> rd.err]
    /\ last' = [offset |-> pos, rb |-> 0, srcErr |-> rd.err, seeks |-> 1, reads |-> 1,
                before |-> ReadBytes]
    /\ UNCHANGED <<pos, ReadBytes, rec, prev, sumRb>>

\* rb, err := r.r.Read(tmp); if err != nil { return ``, err }
ReadFailed(rd) ==
    /\ ret' = [line |-> <<>>, err |-> rd.err]
    /\ last' = [offset |-> pos, rb |-> 0, srcErr |-> rd.err, seeks |-> 1, reads |-> 1,
                before |-> ReadBytes]
    /\ UNCHANGED <<pos, ReadBytes, rec, prev, sumRb>>

\* a whole record counted for every call, short or not
AddRecLen(rb) == ReadBytes + RecLen

\* r.ReadBytes += uint64(rb): a uint64, which no source of these sizes wraps
AddReadBytes(rb) == ReadBytes + rb

\* the rest of Read: count the bytes, render the line, return it
ReadRendered(rd) ==
    /\ pos' = pos + rd.n
    /\ ReadBytes' = AddReadBytes(rd.n)
    /\ ret' = [line |-> RenderLine(pos, Buffer(pos, rd.n), rd.n), err |-> ErrNil]
    /\ last' = [offset |-> pos, rb |-> rd.n, srcErr |-> ErrNil, seeks |-> 1, reads |-> 1,
                before |-> ReadBytes]
    /\ rec' = [offset |-> pos, rb |-> rd.n, tmp |-> Buffer(pos, rd.n)]
    /\ prev' = rec
    /\ sumRb' = sumRb + rd.n

Read(seekErr, rd) ==
    IF seekErr # ErrNil THEN ReadSeekFailed(seekErr)
    ELSE IF rd.err # ErrNil THEN ReadFailed(rd)
    ELSE ReadRendered(rd)

-----------------------------------------------------------------------------
(* A caller of the Reader: Read and Header in any order *)

ReadStep ==
    /\ pc = "api"
    /\ \E seekErr \in SeekOutcomes : \E rd \in ReadOutcomes(pos) : Read(seekErr, rd)
    /\ UNCHANGED <<config, hdr, pc, stdout>>

HeaderStep ==
    /\ pc = "api"
    /\ hdr' = Header
    /\ UNCHANGED <<config, pos, ReadBytes, ret, last, rec, prev, sumRb, pc, stdout>>

(* main *)

\* if startOffset != 0 { source.Seek(startOffset, io.SeekCurrent) }; reader.New(...)
MainSeek ==
    /\ pc = "seek"
    /\ \E seekErr \in SeekOutcomes :
         IF startOffset # 0 /\ seekErr # ErrNil
         THEN pc' = "exit1" /\ pos' = pos
         ELSE pc' = "loop" /\ pos' = pos + startOffset
    /\ UNCHANGED <<config, ReadBytes, ret, hdr, last, rec, prev, sumRb, stdout>>

\* the limit test with > for >=
LimitExceeded(readBytes) == limit > 0 /\ readBytes > limit

\* limit > 0 && r.ReadBytes >= limit
LimitReached(readBytes) == limit > 0 /\ readBytes >= limit

\* one pass of the dump loop
MainLoop ==
    /\ pc = "loop"
    /\ \E seekErr \in SeekOutcomes : \E rd \in ReadOutcomes(pos) : Read(seekErr, rd)
    /\ IF ret'.err # ErrNil
       THEN /\ pc' = IF ret'.err = EOF THEN "done" ELSE "exit1"
            /\ stdout' = stdout
       ELSE /\ stdout' = Append(stdout, ret'.line)
            /\ pc' = IF LimitReached(ReadBytes') THEN "done" ELSE "loop"
    /\ UNCHANGED <<config, hdr>>

-----------------------------------------------------------------------------
(* Initial states *)

\* n formatters, taken in the order of Views from the k-th on
FormatterList(k, n) == [j \in 1..n |-> Views[((k + j - 2) % Len(Views)) + 1]]

FormatterLists == {FormatterList(k, n) : k \in 1..Len(Views), n \in 1..MaxFormatters}

\* zero to two offset formatters
OffsetLists ==
    {<<>>} \cup {<<f>> : f \in OffsetFormatter} \cup {<<f, g>> : f, g \in OffsetFormatter}

\* n bytes: runs of m bytes a, each followed by one byte b
Source(n, a, b, m) == [k \in 1..n |-> IF (k - 1) % (m + 1) < m THEN a ELSE b]

\* the byte value after a in ByteVals, the least one after the greatest
Other(a) ==
    IF \E b \in ByteVals : b > a
    THEN CHOOSE b \in ByteVals : b > a /\ \A c \in ByteVals : c > a => b <= c
    ELSE CHOOSE b \in ByteVals : \A c \in ByteVals : b <= c

Sources == {Source(n, a, Other(a), m) : n \in 0..MaxSize, a \in ByteVals, m \in 0..MaxRun}

PlainSources == {Source(n, a, a, 0) : n \in 0..MaxSize, a \in {65}}

\* the state after New: nothing read, nothing returned
Fresh ==
    /\ ReadBytes = 0
    /\ ret = [line |-> <<>>, err |-> ErrNil]
    /\ hdr = <<>>
    /\ last = NoCall
    /\ rec = [offset |-> -1, rb |-> 0, tmp |-> <<>>]
    /\ prev = [offset |-> -1, rb |-> 0, tmp |-> <<>>]
    /\ sumRb = 0
    /\ stdout = <<>>

\* a Reader over a file, every byte formatter list, sources with runs
Init ==
    /\ src \in Sources
    /\ charFormatters \in FormatterLists
    /\ offsetFormatter \in {<<>>, <<OffsetHex, OffsetDec>>}
    /\ fileSize = Len(src)
    /\ showHeader = FALSE
    /\ startOffset = 0
    /\ pos = startOffset
    /\ limit = 0
    /\ pc = "api"
    /\ Fresh

\* a Reader over a file or over redirected stdin (size unknown, 0), every
\* offset formatter list, from any starting position
OffsetInit ==
    /\ src \in PlainSources
    /\ charFormatters = <<ViewHex>>
    /\ offsetFormatter \in OffsetLists
    /\ fileSize \in {0, Len(src)}
    /\ showHeader = FALSE
    /\ startOffset \in 0..MaxSeek
    /\ pos = startOffset
    /\ limit = 0
    /\ pc = "api"
    /\ Fresh

\* a Reader that shows headers, every byte formatter list
HeaderInit ==
    /\ src \in PlainSources
    /\ charFormatters \in FormatterLists
    /\ offsetFormatter \in {<<>>, <<OffsetPercent>>, <<OffsetOct, OffsetHex>>}
    /\ fileSize = Len(src)
    /\ showHeader = TRUE
    /\ startOffset = 0
    /\ pos = startOffset
    /\ limit = 0
    /\ pc = "api"
    /\ Fresh

\* main, before it seeks to the starting offset
MainInit ==
    /\ src \in PlainSources
    /\ charFormatters = <<ViewHex>>
    /\ offsetFormatter \in {<<>>, <<OffsetHex>>}
    /\ fileSize \in {0, Len(src)}
    /\ showHeader = FALSE
    /\ startOffset \in 0..MaxSeek
    /\ pos = 0
    /\ limit \in 0..MaxLimit
    /\ pc = "seek"
    /\ Fresh

Next == ReadStep \/ HeaderStep

MainNext == MainSeek \/ MainLoop

Spec == Init /\ [][Next]_vars

OffsetSpec == OffsetInit /\ [][Next]_vars

HeaderSpec == HeaderInit /\ [][Next]_vars

\* main runs until it returns or exits
MainSpec == MainInit /\ [][MainNext]_vars /\ WF_vars(MainNext)

-----------------------------------------------------------------------------
(* Reading a returned line back: its glyphs, its blocks, its columns *)

\* the last Read call returned a line: ret.line renders the record rec
LastOk == last.offset >= 0 /\ last.srcErr = ErrNil

IsGlyph(t) == t \notin Markers

Glyphs(text) == SelectSeq(text, IsGlyph)

\* the places in text of the tokens equal to t
Places(text, t) == SelectSeq([k \in 1..Len(text) |-> k], LAMBDA k : text[k] = t)

\* the places in text of its glyphs
GlyphPlaces(text) == SelectSeq([k \in 1..Len(text) |-> k], LAMBDA k : IsGlyph(text[k]))

\* the k-th stretch of text between splitters, k from 1
Segment(text, k) ==
    LET sp == Places(text, Splitter)
        from == IF k = 1 THEN 1 ELSE sp[k - 1] + 1
        to == IF k > Len(sp) THEN Len(text) ELSE sp[k] - 1
    IN  SubSeq(text, from, to)

\* the block of byte formatter didx (from 0) in a line or in a header
BlockOf(text, didx) == Segment(text, didx + 1 + (IF Len(offsetFormatter) > 0 THEN 1 ELSE 0))

LeftOf(text) == Segment(text, 1)

RightOf(text) == Segment(text, Len(charFormatters) + 2)

\* the widths the byte formatters declare for one byte
DeclaredWidth(f) ==
    CASE f = ViewHex -> 2 [] f = ViewDec -> 3 [] f = ViewOct -> 3 [] f = ViewBit -> 8
      [] f = ViewASCII -> 1 [] f = ViewHexWithASCII -> 6 [] f = ViewDecWithASCII -> 7

\* columns are one space apart, ASCII columns are packed
DeclaredGap(f) == IF f = ViewASCII THEN 0 ELSE 1

\* which glyph of a block is the first one of column i (from 0): the columns
\* before it, their gaps, and the extra space before column 8
ColumnStart(f, i) ==
    i * (DeclaredWidth(f) + DeclaredGap(f)) + (IF i >= HalfRow THEN 1 ELSE 0) + 1

\* glyphs of a whole block: 16 columns, 15 gaps, the extra space
DeclaredBlockWidth(f) == ColumnStart(f, RecLen - 1) + DeclaredWidth(f) - 1

\* the glyphs of column i, as far as the block has them; g: the block's glyphs
ColumnGlyphs(g, f, i) ==
    SubSeq(g, ColumnStart(f, i), Min(Len(g), ColumnStart(f, i) + DeclaredWidth(f) - 1))

\* the token right before the text of column i of a block is the marker m;
\* gp: the places of the block's glyphs
MarkerBefore(block, gp, f, i, m) ==
    /\ ColumnStart(f, i) <= Len(gp)
    /\ gp[ColumnStart(f, i)] > 1
    /\ block[gp[ColumnStart(f, i)] - 1] = m

FormatterIdx == 0..(Len(charFormatters) - 1)

-----------------------------------------------------------------------------
(* C1 *)

WithASCIIViews == {ViewHexWithASCII, ViewDecWithASCII}

\* byte i of the record starts a run: it is the first, or differs from byte i - 1
StartsRun(i) == i = 0 \/ rec.tmp[i + 1] # rec.tmp[i]

\* C1, as stated: for every byte formatter and every record, the palette marker
\* of a present byte i stands right before that byte's text if and only if
\* i = 0 or the byte differs from byte i - 1.
C1_MarkerIffRunStartEveryView ==
    LastOk =>
        \A d \in FormatterIdx :
            LET f == charFormatters[d + 1]
                block == BlockOf(ret.line, d)
                gp == GlyphPlaces(block)
            IN  \A i \in 0..(rec.rb - 1) :
                    MarkerBefore(block, gp, f, i, palette(rec.tmp[i + 1])) <=> StartsRun(i)

\* C1, amended: the if and only if holds for the hex, dec, oct, bit and ascii
\* formatters; the two with-ASCII formatters put the palette marker of a
\* present byte before the text of every present byte, run or not.
C1_MarkerIffRunStart ==
    LastOk =>
        \A d \in FormatterIdx :
            LET f == charFormatters[d + 1]
                block == BlockOf(ret.line, d)
                gp == GlyphPlaces(block)
            IN  \A i \in 0..(rec.rb - 1) :
                    IF f \in WithASCIIViews
                    THEN MarkerBefore(block, gp, f, i, palette(rec.tmp[i + 1]))
                    ELSE MarkerBefore(block, gp, f, i, palette(rec.tmp[i + 1])) <=> StartsRun(i)

\* a hex line of a record that starts 5, 5, 5, 9: markers before bytes 0 and 3 only
C1_Witness ==
    /\ LastOk
    /\ charFormatters[1] = ViewHex
    /\ rec.rb >= 4
    /\ SubSeq(rec.tmp, 1, 4) = <<5, 5, 5, 9>>
    /\ LET block == BlockOf(ret.line, 0)
           gp == GlyphPlaces(block)
       IN  /\ MarkerBefore(block, gp, ViewHex, 0, palette(5))
           /\ ~MarkerBefore(block, gp, ViewHex, 1, palette(5))
           /\ ~MarkerBefore(block, gp, ViewHex, 2, palette(5))
           /\ MarkerBefore(block, gp, ViewHex, 3, palette(9))

-----------------------------------------------------------------------------
(* C2 *)

\* C2: in a record with rb < 16, every byte formatter renders each column
\* rb..15 as placeholder glyphs of the width it declares for a present byte,
\* so a block is as wide as that of a full record.
C2_PlaceholderWidth ==
    (LastOk /\ rec.rb < RecLen) =>
        \A d \in FormatterIdx :
            LET f == charFormatters[d + 1]
                g == Glyphs(BlockOf(ret.line, d))
            IN  /\ Len(g) = DeclaredBlockWidth(f)
                /\ \A i \in rec.rb..(RecLen - 1) :
                       ColumnGlyphs(g, f, i) = Repeat(Placeholder, DeclaredWidth(f))

-----------------------------------------------------------------------------
(* Reading an offset column back *)

NumericOffsets == {OffsetHex, OffsetDec, OffsetOct}

DigitValue(g) == CHOOSE d \in 0..15 : DigitGlyph[d + 1] = g

RECURSIVE ParseNat(_, _)
\* the number a sequence of digit glyphs writes in the base
ParseNat(g, base) ==
    IF g = <<>> THEN 0
    ELSE ParseNat(SubSeq(g, 1, Len(g) - 1), base) * base + DigitValue(g[Len(g)])

\* the sides of a line that carry an offset column: its formatter and glyphs
OffsetColumns(text) ==
    (IF Len(offsetFormatter) > 0
     THEN {[side |-> "left", f |-> offsetFormatter[1], g |-> Glyphs(LeftOf(text))]}
     ELSE {}) \cup
    (IF Len(offsetFormatter) > 1
     THEN {[side |-> "right", f |-> offsetFormatter[2], g |-> Glyphs(RightOf(text))]}
     ELSE {})

-----------------------------------------------------------------------------
(* C3 *)

\* C3: a hex, dec or oct offset column is exactly as wide as the width New
\* derived from totalSize, for every offset 0 <= offset <= totalSize and, when
\* totalSize is 0 (size unknown), for every offset a dump reaches.
C3_OffsetWidthExact ==
    (LastOk /\ (fileSize = 0 \/ rec.offset <= fileSize)) =>
        \A c \in OffsetColumns(ret.line) :
            c.f \in NumericOffsets => Len(c.g) = offsetFormatterWidth(c.f)

-----------------------------------------------------------------------------
(* C4 *)

\* C4: with the percent offset formatter and totalSize = 0 every offset is
\* rendered as the fixed text 000.000%.
C4_PercentOfUnknownSize ==
    (LastOk /\ fileSize = 0) =>
        \A c \in OffsetColumns(ret.line) :
            c.f = OffsetPercent => c.g = <<"0", "0", "0", ".", "0", "0", "0", "%">>

-----------------------------------------------------------------------------
(* C5 *)

\* the header without the newline that ends it
HeaderLine == SubSeq(hdr, 1, Len(hdr) - 1)

\* C5: with headers enabled, the header block of every byte formatter has the
\* 16 labels 0..f, each as wide as a data column of that formatter, spaced like
\* a data row, so the block is as wide as the block of a line Read returns.
C5_HeaderMatchesData ==
    hdr # <<>> =>
        \A d \in FormatterIdx :
            LET f == charFormatters[d + 1]
                g == Glyphs(BlockOf(HeaderLine, d))
            IN  /\ Len(g) = DeclaredBlockWidth(f)
                /\ \A i \in 0..(RecLen - 1) :
                       /\ Len(ColumnGlyphs(g, f, i)) = DeclaredWidth(f)
                       /\ ParseNat(ColumnGlyphs(g, f, i), 16) = i
                /\ LastOk => Len(g) = Len(Glyphs(BlockOf(ret.line, d)))

-----------------------------------------------------------------------------
(* C6 *)

\* C6: ReadBytes is the sum of the rb of the Read calls that returned a line,
\* which is the number of bytes consumed from the source since New; every
\* call adds its rb, 0 <= rb <= 16 (0 for a call that failed), never less.
C6_ReadBytesAccounting ==
    /\ ReadBytes = sumRb
    /\ ReadBytes = pos - startOffset
    /\ last.rb \in 0..RecLen
    /\ ReadBytes = last.before + last.rb
    /\ ReadBytes >= last.before

\* the first record of a 5-byte source has been read: ReadBytes is 5
C6_Witness ==
    /\ Len(src) = 5
    /\ startOffset = 0
    /\ LastOk
    /\ prev.offset = -1
    /\ last.rb = 5
    /\ ReadBytes = 5

-----------------------------------------------------------------------------
(* C7 *)

PlainDigits == {DigitGlyph[k] : k \in 1..16}

\* C7: the line of a 16-byte record without offset columns: in every block of
\* a non-ASCII formatter 16 groups of the declared width, one space after each
\* group but the last, one more space before group 8, nothing after group 15;
\* n - 1 splitters for n formatters, one between adjacent blocks, none at the end.
C7_FullRecordLayout ==
    (LastOk /\ rec.rb = RecLen /\ offsetFormatter = <<>>) =>
        /\ Len(Places(ret.line, Splitter)) = Len(charFormatters) - 1
        /\ ret.line[Len(ret.line)] # Splitter
        /\ \A d \in FormatterIdx :
               LET f == charFormatters[d + 1]
                   g == Glyphs(BlockOf(ret.line, d))
                   w == DeclaredWidth(f)
               IN  f # ViewASCII =>
                     /\ Len(g) = RecLen * w + RecLen
                     /\ \A i \in 0..(RecLen - 1) :
                            /\ i < RecLen - 1 => g[ColumnStart(f, i) + w] = " "
                            /\ i = HalfRow => g[ColumnStart(f, i) - 1] = " "
                            /\ \A k \in 1..w :
                                   /\ g[ColumnStart(f, i) + k - 1] \notin {Splitter, Placeholder}
                                   /\ f \notin WithASCIIViews =>
                                          g[ColumnStart(f, i) + k - 1] \in PlainDigits

\* a full record rendered by two formatters, no offsets: one splitter
C7_Witness ==
    /\ LastOk
    /\ rec.rb = RecLen
    /\ offsetFormatter = <<>>
    /\ Len(charFormatters) = 2
    /\ charFormatters[1] # ViewASCII
    /\ Len(Places(ret.line, Splitter)) = 1

-----------------------------------------------------------------------------
(* C8 *)

\* C8: a Read call whose position query or read fails, or meets the end of
\* the stream, returns the empty line and the source's error as it is, leaves
\* ReadBytes alone, and does not retry: one position query per call, at most
\* one read, and no read after a failed position query.
C8_FailureHandling ==
    /\ last # NoCall => last.seeks = 1
    /\ last.reads <= 1
    /\ last.srcErr # ErrNil =>
           /\ ret = [line |-> <<>>, err |-> last.srcErr]
           /\ ReadBytes = last.before
           /\ last.srcErr \in SeekErrors => last.reads = 0

\* the end of the stream met after a record was read
C8_Witness ==
    /\ last.srcErr = EOF
    /\ ret = [line |-> <<>>, err |-> EOF]
    /\ ReadBytes > 0
    /\ last.reads = 1

-----------------------------------------------------------------------------
(* C9 *)

\* C9: a record's offset column writes the position the source had before the
\* record was read, the left and the right column write the same offset, and
\* each record starts where the record before it ended, the first one at the
\* caller's starting position.
C9_OffsetProgression ==
    /\ LastOk =>
           /\ rec.offset = last.offset
           /\ rec.offset = pos - rec.rb
           /\ \A c \in OffsetColumns(ret.line) :
                  IF c.f \in NumericOffsets
                  THEN ParseNat(c.g, OffsetBase(c.f)) = rec.offset
                  ELSE c.g = formatOffset(c.f, rec.offset)
    /\ prev.offset >= 0 => rec.offset = prev.offset + prev.rb
    /\ (rec.offset >= 0 /\ prev.offset < 0) => rec.offset = startOffset

\* a second record, with both offset columns, of a dump that started past 0
C9_Witness ==
    /\ LastOk
    /\ prev.offset >= 0
    /\ startOffset > 0
    /\ Len(offsetFormatter) = 2
    /\ offsetFormatter[1] # offsetFormatter[2]
    /\ rec.offset = startOffset + prev.rb

-----------------------------------------------------------------------------
(* C10 *)

Terminated == pc \in {"done", "exit1"}

\* what the dump loop keeps true
C10_Safety ==
    /\ pc = "loop" => ~(limit > 0 /\ ReadBytes >= limit)
    /\ (limit > 0 /\ ReadBytes >= limit) => pc = "done"
    /\ limit > 0 => ReadBytes < limit + RecLen
    /\ last.srcErr = EOF => pc = "done"
    /\ (last.srcErr # ErrNil /\ last.srcErr # EOF) => pc = "exit1"
    /\ LastOk => (stdout # <<>> /\ stdout[Len(stdout)] = ret.line)

\* what one step of the dump loop prints
C10_Prints ==
    \/ /\ last'.srcErr = ErrNil
       /\ last'.offset >= 0
       /\ stdout' = Append(stdout, ret'.line)
    \/ /\ stdout' = stdout
       /\ (last'.srcErr # ErrNil \/ pc = "seek")

====
